---- MODULE Spec2Model ----
(***************************************************************************)
(* A model of @nestjs-builder/core: BuilderService (the Proxy-wrapped      *)
(* builder), the @DefaultValue metadata decorator, validateOrThrow and the *)
(* createBuilder factory.                                                  *)
(*                                                                         *)
(* JavaScript strings are sequences of one-character strings, so that      *)
(* startsWith / charAt / slice / toLowerCase are computed as the code      *)
(* computes them.  Every JavaScript value of the model is such a sequence; *)
(* the non-string values (undefined, numbers) are one-element sequences    *)
(* whose element is not a character.                                       *)
(***************************************************************************)
EXTENDS Naturals, Sequences, FiniteSets, TLC

\* ------------------------------------------------------------ strings ----

UpperChars == <<"A","B","C","D","E","F","G","H","I","J","K","L","M",
                "N","O","P","Q","R","S","T","U","V","W","X","Y","Z">>

LowerChars == <<"a","b","c","d","e","f","g","h","i","j","k","l","m",
                "n","o","p","q","r","s","t","u","v","w","x","y","z">>

\* String.prototype.toLowerCase on one character
lowerChar(c) ==
    IF \E i \in 1..Len(UpperChars) : UpperChars[i] = c
    THEN LowerChars[CHOOSE i \in 1..Len(UpperChars) : UpperChars[i] = c]
    ELSE c

\* the intrinsic Capitalize<K> acts on the first character with toUpperCase
upperChar(c) ==
    IF \E i \in 1..Len(LowerChars) : LowerChars[i] = c
    THEN UpperChars[CHOOSE i \in 1..Len(LowerChars) : LowerChars[i] = c]
    ELSE c

toLowerCase(s) == [i \in 1..Len(s) |-> lowerChar(s[i])]

\* s.charAt(i), i counted from 0: the empty string when i is out of range
charAt(s, i) == IF i < Len(s) THEN <<s[i + 1]>> ELSE <<>>

\* s.slice(i) for i >= 0
slice(s, i) == IF i < Len(s) THEN SubSeq(s, i + 1, Len(s)) ELSE <<>>

startsWith(s, p) == Len(p) <= Len(s) /\ SubSeq(s, 1, Len(p)) = p

\* Capitalize<K> of the mapped type SetterMethods<T>
Capitalize(k) == IF Len(k) = 0 THEN k ELSE <<upperChar(k[1])>> \o slice(k, 1)

\* ------------------------------------------------------------- values ----

Undefined == <<"undefined">>
NaN       == <<"NaN">>
Num0      == <<"#0">>

EmptyStr  == <<>>
Ali       == <<"a","l","i">>
Guest     == <<"g","u","e","s","t">>
A1        == <<"A","1">>

\* ---------------------------------------------------- property names ----

SetProp        == <<"s","e","t">>
FromProp       == <<"f","r","o","m">>
BuildProp      == <<"b","u","i","l","d">>
BuildAsyncProp == <<"b","u","i","l","d","A","s","y","n","c">>
ResetProp      == <<"r","e","s","e","t">>
ToJSONProp     == <<"t","o","J","S","O","N">>
ConstructorProp == <<"c","o","n","s","t","r","u","c","t","o","r">>

Username == <<"u","s","e","r","n","a","m","e">>
Role     == <<"r","o","l","e">>
ID       == <<"I","D">>
Qty      == <<"q","t","y">>

\* -------------------------------------------------------- the classes ----
\* The record types handed to the builder (the T of BuilderService<T>).
\*   Account  the README's entity: username carries @IsNotEmpty(), role
\*            carries @IsNotEmpty() and @DefaultValue('guest'); neither
\*            field has an initializer.
\*   Item     ID = '' carries @IsNotEmpty() and @DefaultValue('A1').
\*   Order    qty carries @IsNotEmpty() and @Type(() => Number) and has no
\*            initializer.
\*   Gift     class Gift extends Item {}: it declares nothing of its own.

NoCtor     == "undefined"
ObjectCtor == "Object"
Models     == {"Account", "Item", "Order", "Gift"}

\* the class a class extends
Parent(c) == IF c = "Gift" THEN "Item" ELSE ObjectCtor

\* the field declarations a class body holds, in declaration order
DeclaredFields(c) ==
    CASE c = "Account" -> << [key |-> Username, initialized |-> FALSE, init |-> Undefined],
                             [key |-> Role,     initialized |-> FALSE, init |-> Undefined] >>
      [] c = "Item"    -> << [key |-> ID,  initialized |-> TRUE,  init |-> EmptyStr] >>
      [] c = "Order"   -> << [key |-> Qty, initialized |-> FALSE, init |-> Undefined] >>
      [] OTHER         -> << >>

\* a class's fields with the ones it inherits, base class first
RECURSIVE FieldsOf(_)
FieldsOf(c) ==
    IF c \in Models THEN FieldsOf(Parent(c)) \o DeclaredFields(c) ELSE << >>

KeysOf(c) == { FieldsOf(c)[i].key : i \in 1..Len(FieldsOf(c)) }

\* the @DefaultValue(value) decorators the class bodies hold: <<class, field, value>>
DeclaredDefaults == { <<"Account", Role, Guest>>, <<"Item", ID, A1>> }

\* the fields that carry class-validator's @IsNotEmpty(), in declaration order
RECURSIVE IsNotEmptyFields(_)
IsNotEmptyFields(c) ==
    IF c \notin Models THEN << >>
    ELSE IsNotEmptyFields(Parent(c)) \o
         (CASE c = "Account" -> << Username, Role >>
            [] c = "Item"    -> << ID >>
            [] c = "Order"   -> << Qty >>
            [] OTHER         -> << >>)

\* the fields that carry class-transformer's @Type(() => Number)
NumberFields(c) == IF c = "Order" THEN {Qty} ELSE {}

\* ---------------------------------------------------------- the state ----

VARIABLES
    useDefineForClassFields, \* the build: does a field without initializer become an own property
    metadata,     \* reflect-metadata's "default" entries: <<class, field>> -> value
    created,      \* has the builder been constructed
    ctor,         \* BuilderService.ctor
    heap,         \* the objects some reference reaches: id -> (own key -> value)
    instance,     \* BuilderService.instance, a reference into heap
    held,         \* a reference the caller kept from an earlier build() / toJSON()
    caught,       \* has the caller caught an Error that a build() of this handle threw
    call          \* the last call made on the handle, with what it returned or threw

vars == <<useDefineForClassFields, metadata, created, ctor, heap, instance, held, caught, call>>

NumRefs == 2
ObjIds  == 1..NumRefs
NoRef   == 0

EmptyObject == [k \in {} |-> Undefined]

\* the two objects a construction leaves: the BuilderService itself (`this`
\* inside the constructor, the Proxy's target) and the Proxy that wraps it
Target   == "BuilderService"
Proxy    == "Proxy"
NoHandle == "none"

\* a receiver that is the unwrapped BuilderService
ThisUnwrapped == Target

\* `this` inside a declared method called on the handle: the get trap hands
\* the method back unbound (Reflect.get), so the call binds the handle
This == Proxy

\* ---------------------------------------------------- reflect-metadata ----

\* Reflect.defineMetadata("default", value, target, propertyKey)
defineMetadata(md, value, target, propertyKey) ==
    [p \in DOMAIN md \cup {<<target, propertyKey>>} |->
        IF p = <<target, propertyKey>> THEN value ELSE md[p]]

\* a lookup that reads the target's own entry only (Reflect.getOwnMetadata)
getOwnMetadata(md, c, propertyKey) ==
    IF <<c, propertyKey>> \in DOMAIN md THEN md[<<c, propertyKey>>] ELSE Undefined

\* Reflect.getMetadata("default", target, propertyKey): the entry of the
\* target or, failing that, of the nearest prototype up the chain that has one
RECURSIVE getMetadata(_, _, _)
getMetadata(md, c, propertyKey) ==
    IF c \notin Models THEN Undefined
    ELSE IF <<c, propertyKey>> \in DOMAIN md THEN md[<<c, propertyKey>>]
    ELSE getMetadata(md, Parent(c), propertyKey)

\* ------------------------------------------------------- construction ----

\* the own enumerable properties the field declarations fs leave on a bare
\* instance: a later declaration of a key overrides an earlier one
Construct(fs, own) ==
    [k \in { fs[i].key : i \in own } |->
        fs[CHOOSE i \in own : fs[i].key = k /\ \A j \in own : fs[j].key = k => j <= i].init]

\* the declarations among fs that define a property
Emitted(fs) == { i \in 1..Len(fs) : fs[i].initialized \/ useDefineForClassFields }

\* new ctor()
NewInstance(c) == Construct(FieldsOf(c), Emitted(FieldsOf(c)))

\* this.instance = ctor ? new ctor() : {}
FreshInstance(c) == IF c = NoCtor THEN EmptyObject ELSE NewInstance(c)

\* a pass that seeds only the properties that are still undefined
ApplyDefaultsUnsetOnly(md, c, obj) ==
    IF c = NoCtor THEN obj
    ELSE [k \in DOMAIN obj |->
            IF getMetadata(md, c, k) # Undefined /\ obj[k] = Undefined
            THEN getMetadata(md, c, k) ELSE obj[k]]

\* a pass over every registered field of the class, present on the bare
\* instance or not
ApplyDefaultsRegistered(md, c, obj) ==
    IF c = NoCtor THEN obj
    ELSE [k \in DOMAIN obj \cup { p[2] : p \in { q \in DOMAIN md : q[1] = c } } |->
            IF getMetadata(md, c, k) # Undefined THEN getMetadata(md, c, k) ELSE obj[k]]

\* the constructor's pass over Object.keys(this.instance)
ApplyDefaults(md, c, obj) ==
    IF c = NoCtor THEN obj
    ELSE [k \in DOMAIN obj |->
            IF getMetadata(md, c, k) # Undefined THEN getMetadata(md, c, k) ELSE obj[k]]

\* the objects the references reach; every other object is garbage
Collect(h, roots) == [i \in (DOMAIN h) \cap roots |-> h[i]]

\* the reference a newly allocated object gets, given the references in use
Allocate(live) == CHOOSE i \in ObjIds \ live : \A j \in ObjIds \ live : i <= j

\* a call record: the property read from the handle and the arguments passed
\* (a1, a2, or the object partial); whether the get trap answered with a
\* dynamic setter; the field and value an assignment stored; what came back
\* (ret: "handle", "object", "throw", "fulfilled", "rejected"), the object
\* returned, the builder object returned (handle), the thrown Error's
\* message, and the validation passes run
NoCall ==
    [prop |-> << >>, a1 |-> Undefined, a2 |-> Undefined, partial |-> EmptyObject,
     dynamic |-> FALSE, key |-> << >>, value |-> Undefined,
     ret |-> "none", handle |-> NoHandle, obj |-> NoRef, errors |-> << >>, passes |-> 0]

Init ==
    /\ useDefineForClassFields \in BOOLEAN
    /\ metadata = [p \in { <<d[1], d[2]>> : d \in DeclaredDefaults } |->
                      (CHOOSE d \in DeclaredDefaults : <<d[1], d[2]>> = p)[3]]
    /\ created = FALSE
    /\ ctor = NoCtor
    /\ heap = << >>
    /\ instance = NoRef
    /\ held = NoRef
    /\ caught = FALSE
    /\ call = NoCall

\* --------------------------------------------------- validateOrThrow ----

\* Number(value) on the values of the model
Number(v) ==
    CASE v = EmptyStr -> Num0
      [] v = Num0     -> Num0
      [] OTHER        -> NaN

\* class-transformer's conversion of one property: @Type(() => Number)
\* converts with Number(), null and undefined pass through unconverted
TransformValue(c, k, v) ==
    IF k \in NumberFields(c) /\ v # Undefined THEN Number(v) ELSE v

\* Object.assign(target, source)
ObjectAssign(target, source) ==
    [k \in DOMAIN target \cup DOMAIN source |->
        IF k \in DOMAIN source THEN source[k] ELSE target[k]]

\* plainToInstance(ctor, obj): a new instance of ctor that receives every
\* own key of obj, converted
plainToInstance(c, obj) ==
    ObjectAssign(NewInstance(c), [k \in DOMAIN obj |-> TransformValue(c, k, obj[k])])

\* the properties class-validator holds metadata for
DecoratedKeys(c) == { IsNotEmptyFields(c)[i] : i \in 1..Len(IsNotEmptyFields(c)) }

\* validateSync's whitelist: true deletes from the validated object every
\* property without a validation decorator
Whitelist(c, obj) == [k \in DOMAIN obj \cap DecoratedKeys(c) |-> obj[k]]

\* class-validator's isNotEmpty
isNotEmpty(v) == v # EmptyStr /\ v # Undefined

ReadProperty(obj, k) == IF k \in DOMAIN obj THEN obj[k] ELSE Undefined

\* the ValidationError of each property of bad, in order
ValidationErrors(obj, bad) ==
    [i \in 1..Len(bad) |->
        [property |-> bad[i], value |-> ReadProperty(obj, bad[i]), constraint |-> "isNotEmpty"]]

\* validateSync(instance, {whitelist: true, forbidUnknownValues: false}):
\* one ValidationError per violating property, in metadata order
validateSync(c, obj) ==
    ValidationErrors(obj, SelectSeq(IsNotEmptyFields(c), LAMBDA k : ~isNotEmpty(ReadProperty(obj, k))))

\* JSON.stringify(errors, null, 2): the array's entries in order; a property
\* whose value is undefined is left out of its entry
JSONstringify(errors) ==
    [i \in 1..Len(errors) |->
        IF errors[i].value = Undefined
        THEN [property |-> errors[i].property, constraint |-> errors[i].constraint]
        ELSE errors[i]]

\* the class of the object validateOrThrow validates
ValidatedClass(c) == IF c # NoCtor THEN c ELSE ObjectCtor

\* the message of the Error thrown for errors (<< >>: nothing is thrown)
ThrownFor(errors) == IF Len(errors) > 0 THEN JSONstringify(errors) ELSE << >>

\* an Error that reports the first violation only
ThrownFirstOnly(errors) == IF Len(errors) > 0 THEN JSONstringify(<<errors[1]>>) ELSE << >>

\* a validateOrThrow that validates, and so whitelists, the builder's own
\* object whether or not a ctor is given
ValidateInstanceInPlace(h, ref, c, coerced) ==
    [heap    |-> [h EXCEPT ![ref] = Whitelist(ValidatedClass(c), coerced)],
     thrown  |-> ThrownFor(validateSync(ValidatedClass(c), coerced)),
     passes  |-> 1]

\* validateOrThrow once the instance to validate is known: the heap it
\* leaves (with no ctor the validated object is h[ref] itself, which the
\* whitelist strips) and the message of the Error it throws
ValidateInstance(h, ref, c, coerced) ==
    [heap    |-> IF c # NoCtor THEN h
                 ELSE [h EXCEPT ![ref] = Whitelist(ValidatedClass(c), coerced)],
     thrown  |-> ThrownFor(validateSync(ValidatedClass(c), coerced)),
     passes  |-> 1]

\* a validateOrThrow whose Error reports the first violation only
validateOrThrowFirstOnly(h, ref, c) ==
    [heap    |-> IF c # NoCtor THEN h
                 ELSE [h EXCEPT ![ref] = Whitelist(ValidatedClass(c), h[ref])],
     thrown  |-> ThrownFirstOnly(validateSync(ValidatedClass(c),
                     IF c # NoCtor THEN plainToInstance(c, h[ref]) ELSE h[ref])),
     passes  |-> 1]

\* validateOrThrow(obj, ctor) on the object h[ref]
validateOrThrow(h, ref, c) ==
    ValidateInstance(h, ref, c, IF c # NoCtor THEN plainToInstance(c, h[ref]) ELSE h[ref])

\* ------------------------------------------------------- the builder ----

\* an assignment that replaces the object's fields by the one assigned
AssignClobber(obj, key, value) == [k \in {key} |-> value]

\* obj[key] = value
Assign(obj, key, value) ==
    [k \in DOMAIN obj \cup {key} |-> IF k = key THEN value ELSE obj[k]]

\* a merge that keeps nothing of the target
MergeReplacing(target, source) == source

\* from()'s Object.assign(this.instance, obj)
Merge(target, source) == ObjectAssign(target, source)

\* a get trap that lower-cases the whole of what follows "set"
ProxyGetLowerAll(prop) ==
    IF startsWith(prop, SetProp)
    THEN [dynamic |-> TRUE,  key |-> toLowerCase(slice(prop, 3))]
    ELSE [dynamic |-> FALSE, key |-> prop]

\* the Proxy's get trap: what handle[prop] evaluates to
ProxyGet(prop) ==
    IF startsWith(prop, SetProp)
    THEN [dynamic |-> TRUE,  key |-> toLowerCase(charAt(prop, 3)) \o slice(prop, 4)]
    ELSE [dynamic |-> FALSE, key |-> prop]

\* the name SetterMethods<T> gives the setter of field k
SetterName(k) == SetProp \o Capitalize(k)

\* a registration that also writes the default into the state of a builder
\* that already exists for the target
DefaultValueRetroactive(value, target, propertyKey) ==
    /\ metadata' = defineMetadata(metadata, value, target, propertyKey)
    /\ metadata' # metadata
    /\ heap' = IF created /\ ctor = target /\ propertyKey \in DOMAIN heap[instance]
               THEN [heap EXCEPT ![instance] = Assign(heap[instance], propertyKey, value)]
               ELSE heap
    /\ UNCHANGED <<useDefineForClassFields, created, ctor, instance, held, caught, call>>

\* DefaultValue(value)(target, propertyKey)
DefaultValue(value, target, propertyKey) ==
    /\ metadata' = defineMetadata(metadata, value, target, propertyKey)
    /\ metadata' # metadata
    /\ UNCHANGED <<useDefineForClassFields, created, ctor, heap, instance, held, caught, call>>

\* new BuilderService(c), c a class or undefined
Constructor(c) ==
    /\ ~created
    /\ created' = TRUE
    /\ ctor' = c
    /\ instance' = Allocate({})
    /\ heap' = (instance' :> ApplyDefaults(metadata, c, FreshInstance(c)))
    /\ call' = [NoCall EXCEPT !.prop = ConstructorProp, !.ret = "handle", !.handle = Proxy]
    /\ UNCHANGED <<useDefineForClassFields, metadata, held, caught>>

\* createBuilder(model)
createBuilder(model) == Constructor(model)

\* the function the get trap returns for a "set..." name, applied to value
DynamicSetter(prop, key, value, a2) ==
    /\ heap' = [heap EXCEPT ![instance] = Assign(heap[instance], key, value)]
    /\ call' = [NoCall EXCEPT !.prop = prop, !.a1 = value, !.a2 = a2, !.dynamic = TRUE,
                              !.key = key, !.value = value, !.ret = "handle",
                              !.handle = Proxy]
    /\ UNCHANGED <<instance, held, caught>>

\* BuilderService.set(key, value)
set(key, value) ==
    /\ heap' = [heap EXCEPT ![instance] = Assign(heap[instance], key, value)]
    /\ call' = [NoCall EXCEPT !.prop = SetProp, !.a1 = key, !.a2 = value,
                              !.key = key, !.value = value, !.ret = "handle",
                              !.handle = This]
    /\ UNCHANGED <<instance, held, caught>>

\* BuilderService.build() on the instance h[ref]: the heap it leaves and
\* either the Error it lets through (thrown) or the reference it returns
BuildOutcome(ref, v) ==
    [heap |-> v.heap, thrown |-> v.thrown, value |-> ref, passes |-> v.passes]

buildResult(h, ref, c) == BuildOutcome(ref, validateOrThrow(h, ref, c))

\* build() throws r.thrown or returns r.value
Return(r) ==
    /\ heap' = r.heap
    /\ call' = IF Len(r.thrown) > 0
               THEN [NoCall EXCEPT !.prop = BuildProp, !.ret = "throw",
                                   !.errors = r.thrown, !.passes = r.passes]
               ELSE [NoCall EXCEPT !.prop = BuildProp, !.ret = "object",
                                   !.obj = r.value, !.passes = r.passes]
    /\ caught' = (caught \/ Len(r.thrown) > 0)
    /\ UNCHANGED <<instance, held>>

build == Return(buildResult(heap, instance, ctor))

\* the promise of an async function whose body is "return this.build()": it
\* is settled when the function returns, fulfilled with what build()
\* returned or rejected with what it threw
Settle(r) ==
    /\ heap' = r.heap
    /\ call' = IF Len(r.thrown) > 0
               THEN [NoCall EXCEPT !.prop = BuildAsyncProp, !.ret = "rejected",
                                   !.errors = r.thrown, !.passes = r.passes]
               ELSE [NoCall EXCEPT !.prop = BuildAsyncProp, !.ret = "fulfilled",
                                   !.obj = r.value, !.passes = r.passes]
    /\ caught' = (caught \/ Len(r.thrown) > 0)
    /\ UNCHANGED <<instance, held>>

\* a buildAsync that resolves with the instance without calling build()
buildAsyncUnvalidated ==
    /\ call' = [NoCall EXCEPT !.prop = BuildAsyncProp, !.ret = "fulfilled", !.obj = instance]
    /\ UNCHANGED <<heap, instance, held, caught>>

\* BuilderService.buildAsync()
buildAsync == Settle(buildResult(heap, instance, ctor))

\* a reset that clears the object it has instead of installing a new one
ReinitializeInPlace(live, new) ==
    /\ heap' = [heap EXCEPT ![instance] = FreshInstance(ctor)]
    /\ call' = [NoCall EXCEPT !.prop = ResetProp, !.ret = "handle", !.handle = This]
    /\ UNCHANGED <<instance, held, caught>>

\* reset()'s assignment of a new instance to this.instance; only the object
\* the caller still holds stays reachable besides it
Reinitialize(live, new) ==
    /\ instance' = new
    /\ heap' = [i \in live \cup {new} |-> IF i = new THEN FreshInstance(ctor) ELSE heap[i]]
    /\ call' = [NoCall EXCEPT !.prop = ResetProp, !.ret = "handle", !.handle = This]
    /\ UNCHANGED <<held, caught>>

\* BuilderService.reset()
reset == Reinitialize({held} \cap ObjIds, Allocate({held} \cap ObjIds))

\* BuilderService.from(obj)
from(obj) ==
    /\ heap' = [heap EXCEPT ![instance] = Merge(heap[instance], obj)]
    /\ call' = [NoCall EXCEPT !.prop = FromProp, !.partial = obj, !.ret = "handle",
                              !.handle = This]
    /\ UNCHANGED <<instance, held, caught>>

\* a toJSON that validates the instance before returning it
toJSONValidated ==
    /\ heap' = validateOrThrow(heap, instance, ctor).heap
    /\ call' = [NoCall EXCEPT !.prop = ToJSONProp, !.ret = "object", !.obj = instance,
                              !.passes = 1]
    /\ UNCHANGED <<instance, held, caught>>

\* BuilderService.toJSON()
toJSON ==
    /\ call' = [NoCall EXCEPT !.prop = ToJSONProp, !.ret = "object", !.obj = instance]
    /\ UNCHANGED <<heap, instance, held, caught>>

\* handle[prop](a1, a2) / handle[prop](obj): the get trap decides what runs
Call(prop, a1, a2, obj) ==
    /\ created
    /\ IF ProxyGet(prop).dynamic THEN DynamicSetter(prop, ProxyGet(prop).key, a1, a2)
       ELSE CASE prop = SetProp        -> set(a1, a2)
              [] prop = FromProp       -> from(obj)
              [] prop = BuildProp      -> build
              [] prop = BuildAsyncProp -> buildAsync
              [] prop = ResetProp      -> reset
              [] prop = ToJSONProp     -> toJSON
    /\ UNCHANGED <<useDefineForClassFields, metadata, created, ctor>>

\* the caller keeps the object the last call gave it
Hold ==
    /\ call.obj # NoRef
    /\ held # call.obj
    /\ held' = call.obj
    /\ heap' = Collect(heap, {instance, held'})
    /\ UNCHANGED <<useDefineForClassFields, metadata, created, ctor, instance, caught, call>>

\* ---------------------------------------------------------- the inputs ----

MaxPartialKeys == 2

\* the values callers pass
ArgValues == {EmptyStr, Ali}

\* the field names an untyped builder is used with
UntypedKeys == {Username}

InputKeys == IF ctor = NoCtor THEN UntypedKeys ELSE KeysOf(ctor)

\* the Partial<T> objects handed to from()
PartialObjects ==
    UNION { [ks -> ArgValues] : ks \in { s \in SUBSET InputKeys : Cardinality(s) <= MaxPartialKeys } }

\* the @DefaultValue registrations made after the classes were defined
LateDefaults == { <<Ali, "Account", Username>> }

Next ==
    \/ \E m \in Models : createBuilder(m)
    \/ Constructor(NoCtor)
    \/ \E k \in InputKeys, v \in ArgValues : Call(SetterName(k), v, Undefined, EmptyObject)
    \/ \E k \in InputKeys, v \in ArgValues : Call(SetProp, k, v, EmptyObject)
    \/ \E o \in PartialObjects : Call(FromProp, Undefined, Undefined, o)
    \/ Call(BuildProp, Undefined, Undefined, EmptyObject)
    \/ Call(BuildAsyncProp, Undefined, Undefined, EmptyObject)
    \/ Call(ResetProp, Undefined, Undefined, EmptyObject)
    \/ Call(ToJSONProp, Undefined, Undefined, EmptyObject)
    \/ Hold

Spec == Init /\ [][Next]_vars

\* the same program with @DefaultValue registrations still arriving
NextLate == Next \/ \E d \in LateDefaults : DefaultValue(d[1], d[2], d[3])

SpecLate == Init /\ [][NextLate]_vars

\* ------------------------------------------------------------- claims ----

\* the state the builder holds
State == heap[instance]

\* the state of a builder newly created for the same type
FreshBuilderState == ApplyDefaults(metadata, ctor, FreshInstance(ctor))

\* C1: right after createBuilder(T), every field of T with a registered
\* default d holds d in the state toJSON() returns.
C1_DefaultsSeeded ==
    (created /\ call.prop = ConstructorProp) =>
        \A p \in DOMAIN metadata :
            p[1] = ctor => ReadProperty(State, p[2]) = metadata[p]

\* C2: after reset() the state equals, field by field, the state of a newly
\* created builder for the same type (registered defaults re-applied).
C2_ResetRestoresFresh ==
    (created /\ call.prop = ResetProp) => State = FreshBuilderState

\* C3: handle.set(key, value) is not intercepted by the dispatcher: it
\* reaches the declared set(), which stores value in field key and returns
\* the handle.
C3_SetReachesDeclared ==
    (created /\ call.prop = SetProp) =>
        /\ ~call.dynamic
        /\ ReadProperty(State, call.a1) = call.a2
        /\ call.ret = "handle"

\* C4: the mutator Builder<T> names for field f ("set" + Capitalize(f))
\* assigns its argument to field f itself, for every field f of the type.
C4_SetterAssignsItsField ==
    \A f \in KeysOf(ctor) :
        (created /\ call.dynamic /\ call.prop = SetterName(f)) =>
            /\ call.key = f
            /\ ReadProperty(State, f) = call.a1

\* C5: a dynamic mutator call stores its argument in the one field it
\* targets and changes no other field, so a field holds the value of the
\* last call that targeted it.
C5_LastWriteWins ==
    [][ (created /\ call'.dynamic /\ held' = held) =>
            /\ instance' = instance
            /\ ReadProperty(State', call'.key) = call'.a1
            /\ \A g \in (DOMAIN State \cup DOMAIN State') \ {call'.key} :
                   /\ g \in DOMAIN State /\ g \in DOMAIN State'
                   /\ State'[g] = State[g] ]_vars

C5_Witness ==
    /\ created /\ call.dynamic
    /\ call.prop = SetterName(Role) /\ call.a1 = Ali
    /\ ReadProperty(State, Role) = Ali
    /\ ReadProperty(State, Username) = EmptyStr

\* the violations of the state, as the validation pass reports them
Violations ==
    IF ctor = NoCtor THEN << >> ELSE validateSync(ctor, plainToInstance(ctor, State))

\* C6: build() raises exactly when the validation pass reports a violation;
\* the one error it raises carries every violation, in order; it returns no
\* value when a violation exists.
C6_BuildRaisesAllViolations ==
    (created /\ call.prop = BuildProp) =>
        /\ call.ret \in {"throw", "object"}
        /\ (call.ret = "throw") <=> (Len(Violations) > 0)
        /\ call.ret = "throw" =>
              /\ call.obj = NoRef
              /\ Len(call.errors) = Len(Violations)
              /\ \A i \in 1..Len(Violations) :
                    /\ call.errors[i].property = Violations[i].property
                    /\ call.errors[i].constraint = Violations[i].constraint
        /\ call.ret = "object" => call.errors = << >>

C6_Witness ==
    /\ created /\ call.prop = BuildProp /\ call.ret = "throw"
    /\ Len(call.errors) = 2
    /\ call.errors[1].property = Username /\ call.errors[2].property = Role

\* C7: with a type descriptor, the value build() returns is the coerced
\* instance the validator ran on.
C7_BuildReturnsCoerced ==
    (created /\ ctor # NoCtor /\ call.prop = BuildProp /\ call.ret = "object") =>
        heap[call.obj] = plainToInstance(ctor, State)

\* C8: build() leaves the builder state as it was, and a second build()
\* right after the first gives a field-wise equal result.
C8_BuildTwiceSame ==
    [][ (created /\ call'.prop = BuildProp /\ held' = held) =>
            /\ State' = State
            /\ call.prop = BuildProp =>
                  /\ call'.ret = call.ret
                  /\ call.ret = "object" => heap'[call'.obj] = heap[call.obj] ]_vars

\* C9: from(obj) stores obj's value in every key obj holds, leaves every
\* other field as it was, and returns the handle.
C9_FromMerges ==
    [][ (created /\ call'.prop = FromProp) =>
            /\ instance' = instance
            /\ call'.ret = "handle"
            /\ \A k \in DOMAIN call'.partial : ReadProperty(State', k) = call'.partial[k]
            /\ \A g \in (DOMAIN State \cup DOMAIN State') \ DOMAIN call'.partial :
                   /\ g \in DOMAIN State /\ g \in DOMAIN State'
                   /\ State'[g] = State[g] ]_vars

C9_Witness ==
    /\ created /\ call.prop = FromProp
    /\ DOMAIN call.partial = {Role} /\ call.partial[Role] = EmptyStr
    /\ ReadProperty(State, Username) = Ali
    /\ ReadProperty(State, Role) = EmptyStr

\* C10: buildAsync() settles its promise with what build() would return or
\* throw from the same state, runs one validation pass, and leaves the state
\* build() would leave.
C10_BuildAsyncAsBuild ==
    [][ (created /\ call'.prop = BuildAsyncProp /\ held' = held) =>
            LET r == buildResult(heap, instance, ctor)
            IN  /\ heap' = r.heap
                /\ instance' = instance
                /\ call'.passes = 1
                /\ IF Len(r.thrown) = 0
                   THEN call'.ret = "fulfilled" /\ call'.obj = r.value /\ call'.errors = << >>
                   ELSE call'.ret = "rejected" /\ call'.obj = NoRef /\ call'.errors = r.thrown ]_vars

C10_Witness ==
    /\ created /\ call.prop = BuildAsyncProp /\ call.ret = "rejected"
    /\ Len(call.errors) = 2

\* the names of the chainable operations the handle offers besides the
\* dynamic setters
ChainableProps == {SetProp, FromProp, ResetProp}

\* C11: every chainable operation called on the handle (dynamic setX, set,
\* from, reset) returns that same handle, the Proxy createBuilder returned;
\* the call acts on the state the builder holds, leaves every other object
\* as it was, and only reset() replaces the state object.
C11_ChainReturnsSameHandle ==
    [][ (created /\ held' = held /\ (call'.dynamic \/ call'.prop \in ChainableProps)) =>
            /\ call'.ret = "handle"
            /\ call'.handle = Proxy
            /\ call'.prop # ResetProp => instance' = instance
            /\ \A i \in (DOMAIN heap) \ {instance} :
                   i \in DOMAIN heap' /\ heap'[i] = heap[i] ]_vars

C11_Witness ==
    /\ created /\ call.prop = FromProp /\ call.handle = Proxy
    /\ DOMAIN call.partial = {Username}
    /\ ReadProperty(State, Username) = Ali
    /\ ReadProperty(State, Role) = Ali

\* C12: a build() that raises leaves the builder state as it was, and the
\* failure is recoverable: once an Error was caught and the violating fields
\* hold valid values (the validation pass reports nothing), a further build()
\* on the same handle returns the value without error.
C12_RejectedBuildRecoverable ==
    [][ (created /\ held' = held /\ call'.prop = BuildProp) =>
            /\ call'.ret = "throw" =>
                  /\ instance' = instance
                  /\ State' = State
                  /\ caught'
            /\ (caught /\ Len(Violations) = 0) =>
                  /\ call'.ret = "object"
                  /\ call'.obj = instance
                  /\ call'.errors = << >> ]_vars

C12_Witness ==
    /\ created /\ caught /\ ctor = "Account"
    /\ call.prop = BuildProp /\ call.ret = "object" /\ call.obj = instance
    /\ ReadProperty(State, Username) = Ali

\* the type c with every type it extends
RECURSIVE Chain(_)
Chain(c) == IF c \in Models THEN {c} \cup Chain(Parent(c)) ELSE {}

C14_BuildDiscardsState ==
    [][ (created /\ held' = held
            /\ call.prop = BuildProp /\ call.ret = "object"
            /\ (call'.dynamic \/ call'.prop = FromProp)) =>
                /\ call.obj \in DOMAIN heap'
                /\ heap'[call.obj] = heap[call.obj] ]_vars

\* C15: seeding happens at construction only.  A @DefaultValue registered
\* while a builder exists leaves that builder's state as it is, and in every
\* later setX / set / from / build step a field of the state that is new or
\* changed holds the value the call was given for it, never a registry value.
C15_LateDefaultNotApplied ==
    [][ created =>
            /\ metadata' # metadata => (instance' = instance /\ State' = State)
            /\ ~(call'.prop = ResetProp /\ metadata' = metadata /\ held' = held) =>
                  \A k \in DOMAIN State' :
                      (k \notin DOMAIN State \/ State'[k] # State[k]) =>
                          \/ call'.dynamic /\ k = call'.key /\ State'[k] = call'.a1
                          \/ /\ call'.prop = FromProp
                             /\ k \in DOMAIN call'.partial
                             /\ State'[k] = call'.partial[k] ]_vars

C15_Witness ==
    /\ created /\ ctor = "Account" /\ call.prop = ConstructorProp
    /\ <<"Account", Username>> \in DOMAIN metadata
    /\ metadata[<<"Account", Username>>] = Ali
    /\ Username \in DOMAIN State
    /\ State[Username] = Undefined

\* C16: when a field of T has both an initializer and a registered default
\* d, the state of a newly created builder for T holds d in that field.
C16_DefaultBeatsInitializer ==
    (created /\ call.prop = ConstructorProp /\ ctor # NoCtor) =>
        \A i \in 1..Len(FieldsOf(ctor)) :
            (/\ FieldsOf(ctor)[i].initialized
             /\ <<ctor, FieldsOf(ctor)[i].key>> \in DOMAIN metadata) =>
                ReadProperty(State, FieldsOf(ctor)[i].key)
                    = metadata[<<ctor, FieldsOf(ctor)[i].key>>]

C16_Witness ==
    /\ created /\ call.prop = ConstructorProp /\ ctor = "Item"
    /\ NewInstance("Item")[ID] = EmptyStr
    /\ metadata[<<"Item", ID>>] = A1
    /\ State[ID] = A1

\* C17: the dispatcher answers exactly the names that start with "set"; the
\* field it assigns is the name without its first 3 characters, with the
\* first remaining character lower-cased and every other character as it
\* was, and that field of the state receives the argument.
C17_KeyDerivation ==
    (created /\ call.prop # ConstructorProp) =>
        /\ call.dynamic <=> (Len(call.prop) >= 3 /\ SubSeq(call.prop, 1, 3) = SetProp)
        /\ call.dynamic =>
              /\ Len(call.key) + 3 = Len(call.prop)
              /\ \A i \in 1..Len(call.key) :
                     call.key[i] = IF i = 1 THEN lowerChar(call.prop[4]) ELSE call.prop[i + 3]
              /\ call.key \in DOMAIN State
              /\ State[call.key] = call.a1

C17_Witness ==
    /\ created /\ call.dynamic
    /\ call.prop = <<"s","e","t","I","D">>
    /\ call.key = <<"i","D">>
    /\ ReadProperty(State, <<"i","D">>) = Ali

C20_ResetKeepsReturnedValue ==
    [][ (created /\ held \in ObjIds /\ held' = held) =>
            /\ call'.prop = ResetProp =>
                  /\ instance' # held
                  /\ held \in DOMAIN heap'
                  /\ heap'[held] = heap[held]
            /\ held # instance =>
                  /\ instance' # held
                  /\ held \in DOMAIN heap'
                  /\ heap'[held] = heap[held] ]_vars

C20_Witness ==
    /\ created /\ held \in ObjIds /\ held # instance
    /\ ReadProperty(heap[held], Username) = Ali
    /\ call.dynamic /\ call.key = Username
    /\ ReadProperty(State, Username) = EmptyStr

====
